---- MODULE Spec2Model ----
(***************************************************************************)
(* A model of the next-day price forecaster of src/lstm_eth.py             *)
(* (get_lstm_plot_data): the Normalizer, the windowing functions           *)
(* prepare_data_x / prepare_data_y, the positional train/validation split, *)
(* the DataLoader passes, and the epoch loop with its learning-rate        *)
(* scheduler, model mode flag and optimizer steps.                         *)
(*                                                                         *)
(* Four specifications share the module, one per part of the pipeline:     *)
(*   WinSpec     windowing and split      (lines 103-122)                  *)
(*   NormSpec    the Normalizer object    (lines 80-95)                    *)
(*   LoaderSpec  one DataLoader pass      (lines 127-145, 244-269)         *)
(*   TrainSpec   the training loop and the inference after it              *)
(*               (lines 195-277); TrainFairSpec adds the fairness of a     *)
(*               sequential program that always takes its next step.       *)
(* Sequences are 1-based here and 0-based in the source: source index i is *)
(* index i+1 of the model.                                                 *)
(***************************************************************************)
EXTENDS Integers, Sequences, FiniteSets, TLC

VARIABLES
    \* windowing and split
    series,      \* the (normalized) close-price series handed to the windowing
    window_size, \* the window_size argument
    wpc,         \* position in lines 115-122
    data_x,      \* result of prepare_data_x: [err, train, unseen]
    data_y,      \* result of prepare_data_y
    split,       \* [split_index, x_train, x_val, y_train, y_val]
    \* Normalizer
    scaler,      \* [mu, sd] of the Normalizer object, None until fitted
    npc,         \* last operation applied to the Normalizer
    raw,         \* the argument of the last fit_transform
    normalized,  \* the value fit_transform returned
    inv_arg,     \* the argument of the last call, when it was inverse_transform
    inv_out,     \* the outcome of that call: [err, returned, value]
    \* one DataLoader pass
    ds_len,      \* len(dataset)
    batch_size,  \* the DataLoader's batch_size
    shuffle,     \* the DataLoader's shuffle flag
    lpc,         \* "idle", "iterating", "exhausted"
    order,       \* the sampler's index order of this pass
    cursor,      \* number of indices already handed out
    batches,     \* the batches yielded so far, each a sequence of record indices
    predicted,   \* concatenation of the per-batch outputs (lines 253-269)
    \* training loop
    num_windows, \* number of windows the run trains on
    pc,          \* position in lines 237-277
    epoch,       \* the for-loop variable of line 237
    idx,         \* number of batches the running pass has processed
    training,    \* nn.Module.training of the model
    params,      \* version of the model parameters (one per optimizer step)
    opt_steps,   \* number of steps the Adam state has accumulated
    lr,          \* the optimizer's learning rate, in units of 1e-6
    last_epoch,  \* the scheduler's last_epoch counter
    lr_train,    \* lr returned by the training run_epoch of this epoch
    lr_val,      \* lr returned by the validation run_epoch of this epoch
    fwd,         \* the last forward pass: [kind, mode, lr]
    passes       \* passes, validation batches and scheduler steps completed so far

winVars    == <<series, window_size, wpc, data_x, data_y, split>>
normVars   == <<scaler, npc, raw, normalized, inv_arg, inv_out>>
loaderVars == <<ds_len, batch_size, shuffle, lpc, order, cursor, batches, predicted>>
trainVars  == <<num_windows, pc, epoch, idx, training, params, opt_steps, lr,
                last_epoch, lr_train, lr_val, fwd, passes>>
vars       == <<winVars, normVars, loaderVars, trainVars>>

\* None, for a field that holds either None or a one-element array
\* (np.mean and np.std are called with keepdims=True).
None == <<>>

(***************************************************************************)
(* Bounds of the model.                                                    *)
(***************************************************************************)
MaxLen == 4        \* longest series with arbitrary values
MaxVal == 1        \* values of such a series are 0..MaxVal
MaxRamp == 13      \* longest strictly increasing series 1, 2, ..., n
MaxWindow == 3     \* window sizes 1..MaxWindow
MaxPrice == 3      \* close prices are 0..MaxPrice
MaxPrices == 3     \* longest price series handed to the Normalizer
MaxRecords == 4    \* largest dataset a DataLoader pass is checked on
MaxBatch == 3      \* batch sizes 1..MaxBatch of such a pass
MaxWindows == 85   \* a training run has 2..MaxWindows windows

(***************************************************************************)
(* Program constants.                                                      *)
(***************************************************************************)
TrainSplitPct == 80    \* config["data"]["train_split_size"] = 0.80
BatchSize == 64        \* config["training"]["batch_size"]
NumEpoch == 100        \* config["training"]["num_epoch"]
LearningRate == 10000  \* config["training"]["learning_rate"] = 0.01, in units of 1e-6
SchedulerStepSize == 40 \* config["training"]["scheduler_step_size"]
GammaInv == 10         \* StepLR(..., gamma=0.1): a decay divides the rate by 10

(***************************************************************************)
(* Values the parts of the state take while another part of the pipeline   *)
(* is being checked.                                                       *)
(***************************************************************************)
NoWindows == [err |-> "none", train |-> <<>>, unseen |-> <<>>]
NoSplit == [split_index |-> 0, x_train |-> <<>>, x_val |-> <<>>,
            y_train |-> <<>>, y_val |-> <<>>]
NoOutcome == [err |-> "none", returned |-> FALSE, value |-> <<>>]
NoForward == [kind |-> "none", mode |-> TRUE, lr |-> 0]

WinIdle ==
    /\ series = <<>> /\ window_size = 1 /\ wpc = "idle"
    /\ data_x = NoWindows /\ data_y = <<>> /\ split = NoSplit

NormIdle ==
    /\ scaler = [mu |-> None, sd |-> None] /\ npc = "idle"
    /\ raw = <<>> /\ normalized = <<>> /\ inv_arg = <<>> /\ inv_out = NoOutcome

LoaderIdle ==
    /\ ds_len = 0 /\ batch_size = 1 /\ shuffle = FALSE /\ lpc = "off"
    /\ order = <<>> /\ cursor = 0 /\ batches = <<>> /\ predicted = <<>>

TrainIdle ==
    /\ num_windows = 0 /\ pc = "idle" /\ epoch = 0 /\ idx = 0
    /\ training = TRUE /\ params = 0 /\ opt_steps = 0 /\ lr = 0
    /\ last_epoch = 0 /\ lr_train = 0 /\ lr_val = 0 /\ fwd = NoForward
    /\ passes = [train |-> 0, val |-> 0, val_batches |-> 0, sched |-> 0]

(***************************************************************************)
(* Windowing: prepare_data_x, prepare_data_y and the split, lines 103-122. *)
(***************************************************************************)

\* np.lib.stride_tricks.as_strided(x, shape=(n_row, window_size),
\* strides=(s, s)): row r, column c reads x[r + c] (0-based).
Strided(x, n_row, w) ==
    [r \in 1..n_row |-> [c \in 1..w |-> x[r + c - 1]]]

\* prepare_data_x without the [:-1]: the last window is also a training window.
PrepareDataXKeepLast(x, w) ==
    LET n_row == Len(x) - w + 1
        output == Strided(x, n_row, w)
    IN  IF n_row < 0 THEN [err |-> "ValueError", train |-> <<>>, unseen |-> <<>>]
        ELSE IF n_row = 0 THEN [err |-> "IndexError", train |-> <<>>, unseen |-> <<>>]
        ELSE [err |-> "none", train |-> output, unseen |-> output[n_row]]

\* prepare_data_x(x, window_size). A negative n_row makes as_strided raise
\* ValueError (negative dimensions); n_row = 0 builds an array of no rows, of
\* which output[-1] raises IndexError. Otherwise output[:-1], output[-1].
PrepareDataX(x, w) ==
    LET n_row == Len(x) - w + 1
        output == Strided(x, n_row, w)
    IN  IF n_row < 0 THEN [err |-> "ValueError", train |-> <<>>, unseen |-> <<>>]
        ELSE IF n_row = 0 THEN [err |-> "IndexError", train |-> <<>>, unseen |-> <<>>]
        ELSE [err |-> "none",
              train |-> SubSeq(output, 1, n_row - 1),
              unseen |-> output[n_row]]

\* prepare_data_y(x, window_size): x[window_size:], empty when the series is
\* no longer than the window.
PrepareDataY(x, w) == SubSeq(x, w + 1, Len(x))

\* A split that loses the window at split_index.
SplitAtSkipping(xs, k) == [head |-> SubSeq(xs, 1, k), tail |-> SubSeq(xs, k + 2, Len(xs))]

\* xs[:k] and xs[k:].
SplitAt(xs, k) == [head |-> SubSeq(xs, 1, k), tail |-> SubSeq(xs, k + 1, Len(xs))]

\* int(data_y.shape[0] * config["data"]["train_split_size"]): the product is
\* truncated; 0.80 is 80/100.
SplitIndex(n) == (n * TrainSplitPct) \div 100

SeriesInputs ==
    (UNION {[1..n -> 0..MaxVal] : n \in 0..MaxLen})
        \cup {[i \in 1..n |-> i] : n \in 0..MaxRamp}

WinInit ==
    /\ series \in SeriesInputs
    /\ window_size \in 1..MaxWindow
    /\ wpc = "start"
    /\ data_x = NoWindows /\ data_y = <<>> /\ split = NoSplit
    /\ NormIdle /\ LoaderIdle /\ TrainIdle

\* line 115; an exception aborts the run
CallPrepareDataX ==
    /\ wpc = "start"
    /\ data_x' = PrepareDataX(series, window_size)
    /\ wpc' = IF data_x'.err = "none" THEN "x_done" ELSE "aborted"
    /\ UNCHANGED <<series, window_size, data_y, split>>
    /\ UNCHANGED <<normVars, loaderVars, trainVars>>

\* line 116
CallPrepareDataY ==
    /\ wpc = "x_done"
    /\ data_y' = PrepareDataY(series, window_size)
    /\ wpc' = "y_done"
    /\ UNCHANGED <<series, window_size, data_x, split>>
    /\ UNCHANGED <<normVars, loaderVars, trainVars>>

\* lines 118-122
SplitTrainVal ==
    /\ wpc = "y_done"
    /\ LET k == SplitIndex(Len(data_y))
           xs == SplitAt(data_x.train, k)
           ys == SplitAt(data_y, k)
       IN  split' = [split_index |-> k,
                     x_train |-> xs.head, x_val |-> xs.tail,
                     y_train |-> ys.head, y_val |-> ys.tail]
    /\ wpc' = "split_done"
    /\ UNCHANGED <<series, window_size, data_x, data_y>>
    /\ UNCHANGED <<normVars, loaderVars, trainVars>>

WinNext == CallPrepareDataX \/ CallPrepareDataY \/ SplitTrainVal

WinSpec == WinInit /\ [][WinNext]_vars

\* The values of a series are pairwise distinct.
DistinctValues(x) == \A i, j \in 1..Len(x) : i # j => x[i] # x[j]

\* The series grows from each day to the next, so a value tells its date.
Increasing(x) == \A i \in 1..(Len(x) - 1) : x[i] < x[i + 1]

\* C1: for a series of length N > W, prepare_data_x returns N-W training
\* windows and the unseen window, prepare_data_y returns N-W targets, training
\* window i is series[i..i+W-1], target i is the value right after window i,
\* and the unseen window is the last W values, which is none of the training
\* windows (told apart by content when the values of the series are distinct).
C1_WindowShape ==
    LET N == Len(series)
        W == window_size
    IN  N > W =>
          /\ wpc # "aborted"
          /\ wpc \in {"x_done", "y_done", "split_done"} =>
               /\ data_x.err = "none"
               /\ Len(data_x.train) = N - W
               /\ \A i \in 1..(N - W) : data_x.train[i] = SubSeq(series, i, i + W - 1)
               /\ data_x.unseen = SubSeq(series, N - W + 1, N)
               /\ DistinctValues(series) =>
                    \A i \in 1..Len(data_x.train) : data_x.train[i] # data_x.unseen
          /\ wpc \in {"y_done", "split_done"} =>
               /\ Len(data_y) = N - W
               /\ \A i \in 1..(N - W) : data_y[i] = series[i + W]

C1_Witness ==
    /\ wpc = "y_done"
    /\ window_size >= 2
    /\ Len(series) - window_size >= 2
    /\ Len(data_x.train) >= 2

\* C2: whenever the series is no longer than the window, windowing fails (the
\* claim: with InsufficientDataError) and returns no windows. Any exception is
\* accepted here as the failure.
C2_InsufficientDataFails ==
    (wpc # "start" /\ Len(series) <= window_size) => data_x.err # "none"

\* C5: the split is positional at split_index = floor(0.80 * num_windows):
\* the training part is the first split_index windows and targets, the
\* validation part the rest, together they are all windows once and in order,
\* and every validation target is later in the series than every training
\* target (read off the values when the series is increasing).
C5_SplitPartition ==
    wpc = "split_done" =>
      LET n == Len(data_y)
          k == split.split_index
          W == window_size
      IN  /\ 100 * k <= TrainSplitPct * n
          /\ TrainSplitPct * n < 100 * (k + 1)
          /\ Len(split.x_train) = k /\ Len(split.y_train) = k
          /\ Len(split.x_val) = n - k /\ Len(split.y_val) = n - k
          /\ \A i \in 1..k :
               /\ split.x_train[i] = SubSeq(series, i, i + W - 1)
               /\ split.y_train[i] = series[i + W]
          /\ \A j \in 1..(n - k) :
               /\ split.x_val[j] = SubSeq(series, k + j, k + j + W - 1)
               /\ split.y_val[j] = series[k + j + W]
          /\ split.x_train \o split.x_val = data_x.train
          /\ split.y_train \o split.y_val = data_y
          /\ Increasing(series) =>
               \A i \in 1..Len(split.y_train), j \in 1..Len(split.y_val) :
                   split.y_train[i] < split.y_val[j]

C5_Witness ==
    /\ wpc = "split_done"
    /\ Len(split.y_train) >= 2
    /\ Len(split.y_val) >= 2
    /\ window_size >= 2

(***************************************************************************)
(* The Normalizer, lines 80-95. Its numbers are binary64 values, which are *)
(* kept here as the expressions the source computes them by, unevaluated:  *)
(* np.mean(x) is [mean_of |-> x], a quotient is [dividend, divisor], and   *)
(* so on. What is followed is which values are stored, which are None,     *)
(* and which expression each call returns.                                 *)
(***************************************************************************)

\* np.mean(x, axis=(0), keepdims=True)[0]
Mean(x) == [mean_of |-> x]

\* np.std(x, axis=(0), keepdims=True)[0]
Std(x) == [std_of |-> x]

\* a value given as a number
Literal(v) == [value |-> v]

\* (x - mu) / sd, element by element
Normalize(x, mu, sd) ==
    [i \in 1..Len(x) |->
        [dividend |-> [minuend |-> Literal(x[i]), subtrahend |-> mu], divisor |-> sd]]

\* (z * sd) + mu for one element
InverseValue(z, mu, sd) ==
    [augend |-> [multiplicand |-> z, multiplier |-> sd], addend |-> mu]

\* inverse_transform(x), line 92. With mu and sd still None the product
\* x * None is an object-dtype multiplication: it raises TypeError at the first
\* element, and an array of no elements comes back as an empty array.
InverseOutcome(x, sc) ==
    IF sc.sd = None
    THEN IF Len(x) = 0
         THEN [err |-> "none", returned |-> TRUE, value |-> <<>>]
         ELSE [err |-> "TypeError", returned |-> FALSE, value |-> <<>>]
    ELSE [err |-> "none", returned |-> TRUE,
          value |-> [i \in 1..Len(x) |-> InverseValue(x[i], sc.mu[1], sc.sd[1])]]

PriceInputs ==
    UNION {[1..n -> 0..MaxPrice] : n \in 1..MaxPrices}

NormInit ==
    /\ scaler = [mu |-> None, sd |-> None]      \* __init__, lines 81-83
    /\ npc = "new"
    /\ raw = <<>> /\ normalized = <<>> /\ inv_arg = <<>> /\ inv_out = NoOutcome
    /\ WinIdle /\ LoaderIdle /\ TrainIdle

\* fit_transform(x), lines 85-89, on a new Normalizer or on a fitted one:
\* mu and sd are computed from x and overwrite the stored pair
FitTransform ==
    \E x \in PriceInputs :
        /\ raw' = x
        /\ scaler' = [mu |-> <<Mean(x)>>, sd |-> <<Std(x)>>]
        /\ normalized' = Normalize(x, Mean(x), Std(x))
        /\ npc' = "fit_transform"
        /\ inv_arg' = <<>> /\ inv_out' = NoOutcome
        /\ UNCHANGED <<winVars, loaderVars, trainVars>>

\* inverse_transform(x), lines 91-92, on the normalized series, on an array
\* of no elements or on a single value
InverseTransform ==
    \E x \in {normalized, <<>>, <<Literal(0)>>} :
        /\ inv_arg' = x
        /\ inv_out' = InverseOutcome(x, scaler)
        /\ npc' = "inverse_transform"
        /\ UNCHANGED <<scaler, raw, normalized>>
        /\ UNCHANGED <<winVars, loaderVars, trainVars>>

NormNext == FitTransform \/ InverseTransform

NormSpec == NormInit /\ [][NormNext]_vars

\* C3: inverse_transform on a Normalizer that was never fitted fails with
\* UnfittedStateError and returns no value.
C3_UnfittedInverseFails ==
    (npc = "inverse_transform" /\ scaler.sd = None) =>
        /\ inv_out.err = "UnfittedStateError"
        /\ ~inv_out.returned

(***************************************************************************)
(* One pass over a DataLoader, as the loops of lines 203, 255 and 265 make *)
(* it over DataLoader(dataset, batch_size=..., shuffle=...) of lines       *)
(* 144-145 and 244-245 (drop_last is left at its default, False). Record i *)
(* of the TimeSeriesDataset is (x[i], y[i]), lines 137-138; a batch is     *)
(* written as the sequence of the indices of its records.                  *)
(***************************************************************************)
Min(a, b) == IF a < b THEN a ELSE b

Identity(n) == [i \in 1..n |-> i]

Permutations1(n) == {f \in [1..n -> 1..n] : \A i, j \in 1..n : i # j => f[i] # f[j]}

\* A sampler that draws with replacement.
SamplerOrdersWithReplacement(n, shuf) ==
    IF shuf THEN [1..n -> 1..n] ELSE {Identity(n)}

\* The index orders the sampler can produce: RandomSampler (a random
\* permutation) when shuffle is set, SequentialSampler otherwise.
SamplerOrders(n, shuf) ==
    IF shuf THEN Permutations1(n) ELSE {Identity(n)}

\* The next batch: the next batch_size indices, or the ones that are left.
NextBatch(ord, cur, b) == SubSeq(ord, cur + 1, Min(cur + b, Len(ord)))

\* len(dataloader): ceil(n / b)
NumBatches(n, b) == (n + b - 1) \div b

LoaderInit ==
    /\ ds_len \in 1..MaxRecords
    /\ batch_size \in 1..MaxBatch
    /\ shuffle \in BOOLEAN
    /\ lpc = "idle"
    /\ order = <<>> /\ cursor = 0 /\ batches = <<>> /\ predicted = <<>>
    /\ WinIdle /\ NormIdle /\ TrainIdle

\* the for statement asks the loader for an iterator: the sampler fixes the
\* order of the pass
LoaderIter ==
    /\ lpc \in {"idle", "exhausted"}
    /\ order' \in SamplerOrders(ds_len, shuffle)
    /\ cursor' = 0 /\ batches' = <<>> /\ predicted' = <<>>
    /\ lpc' = "iterating"
    /\ UNCHANGED <<ds_len, batch_size, shuffle>>
    /\ UNCHANGED <<winVars, normVars, trainVars>>

\* one turn of the loop body: the batch is fetched and the model's output
\* for its records, one per record and in the batch's order, is appended
\* (lines 257-259)
LoaderNextBatch ==
    /\ lpc = "iterating"
    /\ cursor < ds_len
    /\ LET batch == NextBatch(order, cursor, batch_size)
       IN  /\ batches' = Append(batches, batch)
           /\ predicted' = predicted \o batch
           /\ cursor' = cursor + Len(batch)
    /\ UNCHANGED <<ds_len, batch_size, shuffle, lpc, order>>
    /\ UNCHANGED <<winVars, normVars, trainVars>>

\* the iterator is exhausted and the loop ends
LoaderStop ==
    /\ lpc = "iterating"
    /\ cursor = ds_len
    /\ lpc' = "exhausted"
    /\ UNCHANGED <<ds_len, batch_size, shuffle, order, cursor, batches, predicted>>
    /\ UNCHANGED <<winVars, normVars, trainVars>>

LoaderNext == LoaderIter \/ LoaderNextBatch \/ LoaderStop

LoaderSpec == LoaderInit /\ [][LoaderNext]_vars

\* C6: a pass over n records with batch size b, shuffled or not, yields
\* every record index exactly once, in ceil(n/b) batches of which only the
\* last may hold fewer than b records; without shuffling the records come in
\* index order, so prediction i belongs to target i.
C6_BatchCompleteness ==
    /\ lpc \in {"iterating", "exhausted"} =>
          /\ \A i, j \in 1..Len(predicted) : i # j => predicted[i] # predicted[j]
          /\ \A k \in 1..(Len(batches) - 1) : Len(batches[k]) = batch_size
    /\ lpc = "exhausted" =>
          /\ Len(predicted) = ds_len
          /\ \A r \in 1..ds_len : Cardinality({i \in 1..Len(predicted) : predicted[i] = r}) = 1
          /\ batch_size * Len(batches) >= ds_len
          /\ batch_size * (Len(batches) - 1) < ds_len
          /\ \A k \in 1..Len(batches) :
               /\ Len(batches[k]) >= 1
               /\ Len(batches[k]) <= batch_size
          /\ ~shuffle => \A i \in 1..ds_len : predicted[i] = i

C6_Witness ==
    /\ lpc = "exhausted"
    /\ shuffle
    /\ order # Identity(ds_len)
    /\ Len(batches) >= 2
    /\ Len(batches[Len(batches)]) < batch_size

(***************************************************************************)
(* The training loop and the inference after it, lines 195-277. The model  *)
(* parameters are followed by their version: optimizer.step() is the only  *)
(* statement of the source that writes them, and each call makes a new     *)
(* version. A run is told apart by its number of windows only: the loop    *)
(* does not branch on the values of the data.                              *)
(***************************************************************************)
TrainLen == SplitIndex(num_windows)                 \* len(dataset_train)
ValLen == num_windows - SplitIndex(num_windows)     \* len(dataset_val)
TrainBatches == NumBatches(TrainLen, BatchSize)
ValBatches == NumBatches(ValLen, BatchSize)

\* A run_epoch that never switches the model to evaluation mode.
RunEpochModeNoEval(is_training) == TRUE

\* lines 198-201: model.train() or model.eval(); the value of model.training
RunEpochMode(is_training) == is_training

\* An optimizer stepped in every pass.
OptimizerStepAlways(version, is_training) == version + 1

\* lines 215-217: loss.backward() and optimizer.step() only when training
OptimizerStep(version, is_training) ==
    IF is_training THEN version + 1 ELSE version

\* A pass that ends after its first batch.
PassExhaustedEarly(done, n_batches) == done >= Min(1, n_batches)

\* the loop of line 203 ends when the loader has yielded all its batches
PassExhausted(done, n_batches) == done = n_batches

\* A scheduler that decays at every step.
StepLRAlways(rate, steps) == rate \div GammaInv

\* StepLR.step(): the rate is multiplied by gamma when the number of steps
\* taken reaches a multiple of step_size
StepLR(rate, steps) ==
    IF steps % SchedulerStepSize = 0 THEN rate \div GammaInv ELSE rate

TrainInit ==
    /\ num_windows \in 2..MaxWindows
    /\ pc = "loop"
    /\ epoch = 0 /\ idx = 0
    /\ training = TRUE          \* a new nn.Module is in training mode
    /\ params = 0 /\ opt_steps = 0
    /\ lr = LearningRate /\ last_epoch = 0
    /\ lr_train = 0 /\ lr_val = 0
    /\ fwd = NoForward
    /\ passes = [train |-> 0, val |-> 0, val_batches |-> 0, sched |-> 0]
    /\ WinIdle /\ NormIdle /\ LoaderIdle

\* run_epoch up to its loop, lines 196-201
RunEpochBegin(is_training, at, to) ==
    /\ pc = at
    /\ training' = RunEpochMode(is_training)
    /\ idx' = 0
    /\ pc' = to
    /\ UNCHANGED <<num_windows, epoch, params, opt_steps, lr, last_epoch,
                   lr_train, lr_val, fwd, passes>>
    /\ UNCHANGED <<winVars, normVars, loaderVars>>

\* one turn of the loop of run_epoch, lines 203-219
RunEpochBatch(is_training, at, n_batches) ==
    /\ pc = at
    /\ ~PassExhausted(idx, n_batches)
    /\ fwd' = [kind |-> at, mode |-> training, lr |-> lr]
    /\ params' = OptimizerStep(params, is_training)
    /\ opt_steps' = OptimizerStep(opt_steps, is_training)
    /\ idx' = idx + 1
    /\ passes' = IF is_training THEN passes
                 ELSE [passes EXCEPT !.val_batches = @ + 1]
    /\ UNCHANGED <<num_windows, pc, epoch, training, lr, last_epoch, lr_train, lr_val>>
    /\ UNCHANGED <<winVars, normVars, loaderVars>>

\* line 238 up to the loop of run_epoch; range(num_epoch) has more to give
TrainPassBegin ==
    /\ epoch < NumEpoch
    /\ RunEpochBegin(TRUE, "loop", "train")

TrainBatch == RunEpochBatch(TRUE, "train", TrainBatches)

\* lines 221-223 of the training pass: its lr is scheduler.get_last_lr()[0]
TrainPassEnd ==
    /\ pc = "train"
    /\ PassExhausted(idx, TrainBatches)
    /\ lr_train' = lr
    /\ passes' = [passes EXCEPT !.train = @ + 1]
    /\ pc' = "val_call"
    /\ UNCHANGED <<num_windows, epoch, idx, training, params, opt_steps, lr,
                   last_epoch, lr_val, fwd>>
    /\ UNCHANGED <<winVars, normVars, loaderVars>>

\* line 239 up to the loop of run_epoch
ValPassBegin == RunEpochBegin(FALSE, "val_call", "val")

ValBatch == RunEpochBatch(FALSE, "val", ValBatches)

\* lines 221-223 of the validation pass
ValPassEnd ==
    /\ pc = "val"
    /\ PassExhausted(idx, ValBatches)
    /\ lr_val' = lr
    /\ passes' = [passes EXCEPT !.val = @ + 1]
    /\ pc' = "sched"
    /\ UNCHANGED <<num_windows, epoch, idx, training, params, opt_steps, lr,
                   last_epoch, lr_train, fwd>>
    /\ UNCHANGED <<winVars, normVars, loaderVars>>

\* line 240, and the for statement moves on to the next epoch
SchedulerStep ==
    /\ pc = "sched"
    /\ last_epoch' = last_epoch + 1
    /\ lr' = StepLR(lr, last_epoch + 1)
    /\ passes' = [passes EXCEPT !.sched = @ + 1]
    /\ epoch' = epoch + 1
    /\ pc' = "loop"
    /\ UNCHANGED <<num_windows, idx, training, params, opt_steps, lr_train, lr_val, fwd>>
    /\ UNCHANGED <<winVars, normVars, loaderVars>>

\* range(num_epoch) is used up; lines 244-253: the loaders are rebuilt
\* without shuffling and the model is put in evaluation mode
LoopExit ==
    /\ pc = "loop"
    /\ epoch = NumEpoch
    /\ training' = FALSE
    /\ idx' = 0
    /\ pc' = "infer_train"
    /\ UNCHANGED <<num_windows, epoch, params, opt_steps, lr, last_epoch,
                   lr_train, lr_val, fwd, passes>>
    /\ UNCHANGED <<winVars, normVars, loaderVars>>

\* one turn of an inference loop, lines 255-259 and 265-269: a forward pass
InferBatch(at, n_batches) ==
    /\ pc = at
    /\ ~PassExhausted(idx, n_batches)
    /\ fwd' = [kind |-> at, mode |-> training, lr |-> lr]
    /\ idx' = idx + 1
    /\ UNCHANGED <<num_windows, pc, epoch, training, params, opt_steps, lr,
                   last_epoch, lr_train, lr_val, passes>>
    /\ UNCHANGED <<winVars, normVars, loaderVars>>

InferEnd(at, n_batches, to) ==
    /\ pc = at
    /\ PassExhausted(idx, n_batches)
    /\ idx' = 0
    /\ pc' = to
    /\ UNCHANGED <<num_windows, epoch, training, params, opt_steps, lr,
                   last_epoch, lr_train, lr_val, fwd, passes>>
    /\ UNCHANGED <<winVars, normVars, loaderVars>>

InferTrainBatch == InferBatch("infer_train", TrainBatches)
InferTrainEnd == InferEnd("infer_train", TrainBatches, "infer_val")
InferValBatch == InferBatch("infer_val", ValBatches)
InferValEnd == InferEnd("infer_val", ValBatches, "unseen")

\* lines 273-277: model.eval() and the forward pass over the unseen window
ForecastUnseen ==
    /\ pc = "unseen"
    /\ training' = FALSE
    /\ fwd' = [kind |-> "unseen", mode |-> training', lr |-> lr]
    /\ pc' = "done"
    /\ UNCHANGED <<num_windows, epoch, idx, params, opt_steps, lr, last_epoch,
                   lr_train, lr_val, passes>>
    /\ UNCHANGED <<winVars, normVars, loaderVars>>

TrainNext ==
    \/ TrainPassBegin
    \/ TrainBatch
    \/ TrainPassEnd
    \/ ValPassBegin
    \/ ValBatch
    \/ ValPassEnd
    \/ SchedulerStep
    \/ LoopExit
    \/ InferTrainBatch
    \/ InferTrainEnd
    \/ InferValBatch
    \/ InferValEnd
    \/ ForecastUnseen

TrainSpec == TrainInit /\ [][TrainNext]_vars

\* The program is sequential and each statement returns: the next step is
\* always taken.
TrainFairSpec == TrainSpec /\ WF_vars(TrainNext)

RECURSIVE Pow(_, _)
Pow(b, e) == IF e = 0 THEN 1 ELSE b * Pow(b, e - 1)

\* initial_lr * 0.1^floor(e / scheduler_step_size), in units of 1e-6
ScheduledLr(e) == LearningRate \div Pow(GammaInv, e \div SchedulerStepSize)

InEpoch == pc \in {"train", "val_call", "val", "sched"}
AfterTraining == pc \in {"infer_train", "infer_val", "unseen", "done"}

\* C7: the rate decays once per scheduler step whatever the number of
\* batches: in epoch e the training pass and the validation pass run, and
\* report, initial_lr * 0.1^floor(e / step_size); with the configured values
\* that is 0.01 in epochs 0-39, 0.001 in epochs 40-79, 0.0001 in epochs 80-99.
C7_LearningRateSchedule ==
    /\ last_epoch = passes.sched
    /\ InEpoch =>
          /\ lr = ScheduledLr(epoch)
          /\ epoch \in 0..39 => lr = 10000
          /\ epoch \in 40..79 => lr = 1000
          /\ epoch \in 80..99 => lr = 100
    /\ (pc \in {"train", "val"} /\ idx > 0) => fwd.lr = ScheduledLr(epoch)
    /\ pc \in {"val_call", "val", "sched"} => lr_train = ScheduledLr(epoch)
    /\ pc = "sched" => lr_val = ScheduledLr(epoch)

C7_Witness ==
    /\ pc = "sched"
    /\ epoch = 80
    /\ lr_val = 100
    /\ TrainBatches = 2

\* What C8 says of every state: epoch e is one whole training pass, then one
\* whole validation pass, then one scheduler step, and the loop is left only
\* after num_epoch epochs.
C8_Order ==
    /\ epoch \in 0..NumEpoch
    /\ passes.sched = epoch
    /\ pc \in {"loop", "train"} =>
          /\ passes.train = epoch /\ passes.val = epoch
          /\ opt_steps = epoch * TrainBatches + (IF pc = "train" THEN idx ELSE 0)
          /\ passes.val_batches = epoch * ValBatches
    /\ pc = "train" => epoch < NumEpoch
    /\ pc \in {"val_call", "val"} =>
          /\ passes.train = epoch + 1 /\ passes.val = epoch
          /\ opt_steps = (epoch + 1) * TrainBatches
          /\ passes.val_batches = epoch * ValBatches + (IF pc = "val" THEN idx ELSE 0)
    /\ pc = "sched" =>
          /\ passes.train = epoch + 1 /\ passes.val = epoch + 1
          /\ opt_steps = (epoch + 1) * TrainBatches
          /\ passes.val_batches = (epoch + 1) * ValBatches
    /\ AfterTraining =>
          /\ epoch = NumEpoch
          /\ passes.train = NumEpoch /\ passes.val = NumEpoch
          /\ opt_steps = NumEpoch * TrainBatches
          /\ passes.val_batches = NumEpoch * ValBatches

\* C8: the training loop always terminates, after exactly num_epoch epochs
\* and with no early exit, and each epoch is one full training pass, then one
\* full validation pass, then one scheduler step, in that order.
C8_EpochLoop == []C8_Order /\ <>AfterTraining

C8_Witness ==
    /\ pc = "infer_train"
    /\ passes.sched = NumEpoch
    /\ TrainBatches = 2
    /\ opt_steps = 2 * NumEpoch

\* C9: the parameters and the optimizer state change only in a batch step of
\* a training pass, one optimizer step per training batch; a validation pass,
\* the inference after training and the forecast leave them as they are.
C9_ParamsFrame ==
    [][ /\ (params' # params \/ opt_steps' # opt_steps) =>
             /\ pc = "train" /\ pc' = "train"
             /\ idx' = idx + 1
             /\ params' = params + 1
             /\ opt_steps' = opt_steps + 1
        /\ (pc = "train" /\ idx' = idx + 1) => params' = params + 1
        /\ (pc \in {"val_call", "val", "sched"} \/ AfterTraining) =>
             (params' = params /\ opt_steps' = opt_steps)
      ]_vars

C9_Witness ==
    /\ pc = "done"
    /\ fwd.kind = "unseen"
    /\ passes.val_batches > 0
    /\ params = NumEpoch * TrainBatches
    /\ params > NumEpoch

\* C10: the mode flag of the model matches the work: a forward pass that is
\* followed by an optimizer step runs in training mode, and the forward
\* passes of validation, of the inference after training and of the forecast
\* run in evaluation mode.
C10_ModeMatchesWork ==
    /\ pc = "train" => training
    /\ (pc \in {"val", "sched"} \/ AfterTraining) => ~training
    /\ fwd.kind = "train" => fwd.mode
    /\ fwd.kind \in {"val", "infer_train", "infer_val", "unseen"} => ~fwd.mode

C10_Witness ==
    /\ pc = "val"
    /\ epoch > 0
    /\ idx = 1
    /\ fwd.kind = "val"
    /\ ~fwd.mode

====
